---- MODULE Spec2Model ----
\* Cloud-formation particle simulation (src/cloudformationsimulation.cpp).
\*
\* Numbers.  The program computes in float.  The model computes in fixed point:
\* a quantity q (pixels, seconds, pixels/second, a fraction) is the integer
\* q * Scale, products are rescaled with a floor division (Mul), and the spawn
\* credit, whose increment dt*rate is a product of two scaled numbers, is kept
\* unrescaled in units of 1/Unit so that the accumulator is exact.  The window
\* size is an int in the program and an integer number of pixels here.
EXTENDS Integers, Sequences, FiniteSets

VARIABLES
    winW, winH,        \* int winW, winH                                (line 173)
    emitters,          \* std::vector<Emitter> emitters                 (line 212)
    emitterTimerA,     \* float emitterTimerA, in 1/Unit                (line 216)
    emitterTimerB,     \* float emitterTimerB, in 1/Unit                (line 216)
    puffs,             \* std::vector<Puff> puffs                       (line 218)
    running,           \* bool running                                  (line 219)
    breeze,            \* float breeze                                  (line 221)
    randState,         \* hidden state of rand(), seeded at line 156
    dt,                \* float dt of the frame last run                (line 278)
    pc,                \* "loop" while the frame loop runs, "done" after it
    \* ---- history variables (observations only, never read by the program)
    elapsed,           \* now - lastTicks of the frame last run, in ms
    ticks,             \* number of frames run
    updated,           \* the puffs of the last updatePuffs call after its
                       \* per-puff loop and before its erase
    wrapIn,            \* for each puff of updated, its x at the wrap check
    spawned,           \* number of spawnPuff calls for emitters[0], emitters[1]
    resizes, keys      \* numbers of resize events and of key events handled

vars == <<winW, winH, emitters, emitterTimerA, emitterTimerB, puffs, running,
          breeze, randState, dt, pc, elapsed, ticks, updated, wrapIn, spawned,
          resizes, keys>>

\* ------------------------------------------------------------------ bounds
MaxTicks      == 22  \* ticks of one behaviour of SpecTick
MaxFrames     == 3   \* frames of one behaviour of Spec
MaxEvents     == 2   \* key and resize events of one behaviour of Spec
MaxBurst      == 8   \* key and resize events of one behaviour of SpecEvents

\* ------------------------------------------------------------ fixed point
Scale == 10 * 10 * 10
Unit  == Scale * Scale
Mul(a, b) == (a * b) \div Scale
Min(a, b) == IF a < b THEN a ELSE b
Max(a, b) == IF a > b THEN a ELSE b

\* clampf(x, a, b) = max(a, min(b, x))
clampf(x, a, b) == Max(a, Min(b, x))

\* rand(): a linear congruential generator of reduced width; RAND_MAX is
\* RandMod - 1.  srand(time(nullptr)) makes any state the first one.
RandMod == 1024
RandA   == 77
RandC   == 331
RandMax == RandMod - 1
rand(s) == (RandA * s + RandC) % RandMod

\* frand() = rand() / (float)RAND_MAX, for the value v that rand() returned
frand(v) == (v * Scale) \div RandMax

\* the state of rand() after k calls from state s
RECURSIVE randAfter(_, _)
randAfter(s, k) == IF k = 0 THEN s ELSE randAfter(rand(s), k - 1)

\* the k-th frand() from state s (k >= 1)
frandAt(s, k) == frand(randAfter(s, k))

\* std::sin(a), a in 1/Scale radians: Bhaskara's rational approximation
\* 16 q / (5 pi^2 - 4 q), q = t (pi - t), on each half period.
Pi == 3142
sinHalf(t) == (16 * t * (Pi - t)) \div ((5 * Pi * Pi - 4 * t * (Pi - t)) \div Scale)
sin(a) ==
    LET t == a % (2 * Pi)
    IN  IF t <= Pi THEN sinHalf(t) ELSE 0 - sinHalf(t - Pi)

\* ------------------------------------------------------- the atmosphere
\* struct Emitter { x0, x1, y, rate }
Emitter(x0, x1, y, rate) == [x0 |-> x0, x1 |-> x1, y |-> y, rate |-> rate]

\* spawnPuff(P, E, winW, winH) with rand() in state s: the puff it makes
newPuff(E, s) ==
    [ x       |-> E.x0 + Mul(frandAt(s, 1), E.x1 - E.x0),
      y       |-> E.y + Mul(frandAt(s, 2), 10 * Scale),
      r       |-> 12 * Scale + Mul(frandAt(s, 3), 10 * Scale),
      vx      |-> Mul(frandAt(s, 4) - 500, 8 * Scale),
      vy      |-> 12 * Scale + Mul(frandAt(s, 5), 10 * Scale),
      growth  |-> 3 * Scale + Mul(frandAt(s, 6), 6 * Scale),
      wobble  |-> Mul(frandAt(s, 7) * 2 - 1 * Scale, 800),
      life    |-> 0,
      maxLife |-> 18 * Scale + Mul(frandAt(s, 8), 8 * Scale),
      whiten  |-> 200 ]

\* spawnPuff: P.push_back(p), and the eight calls of rand() it made
spawnPuff(P, E, s) == [P |-> Append(P, newPuff(E, s)), s |-> randAfter(s, 8)]

\* heightNorm = clampf(p.y / (float)winH, 0.f, 1.f)
heightNormOf(y, H) == clampf(y \div H, 0, Scale)

\* p.vy = 10.f * (1.0f - 0.4f*heightNorm) + 8.f
updraft(hn) == Mul(10 * Scale, Scale - Mul(400, hn)) + 8 * Scale

\* p.vx += (breeze - p.vx) * 0.05f
ease(vx, wind) == vx + Mul(wind - vx, 50)

\* mutant of grow: -= for +=
growShrink(p, d, hn) == p.r - Mul(Mul(p.growth, d), 600 + Mul(400, Scale - hn))

\* p.r += p.growth * dt * (0.6f + 0.4f*(1.0f-heightNorm)): the new radius
grow(p, d, hn) == p.r + Mul(Mul(p.growth, d), 600 + Mul(400, Scale - hn))

\* mutant of mature: the clamp left out
matureNoCeiling(w, d) == w + Mul(d, 150)

\* p.whiten = clampf(p.whiten + dt*0.15f, 0.f, 1.f)
mature(w, d) == clampf(w + Mul(d, 150), 0, Scale)

\* the per-puff loop body of updatePuffs up to the wrap check
advance(p, d, wind, H) ==
    LET life == p.life + d
        hn   == heightNormOf(p.y, H)
        vy   == updraft(hn)
        vx   == ease(p.vx, wind)
    IN  [ p EXCEPT
            !.life   = life,
            !.vy     = vy,
            !.vx     = vx,
            !.x      = p.x + Mul(vx + Mul(p.wobble, sin(2 * life)), d),
            !.y      = p.y + Mul(vy, d),
            !.r      = grow(p, d, hn),
            !.whiten = mature(p.whiten, d) ]

\* confine horizontally (wrap): the two ifs, in order
WrapMargin == 100
\* mutant of wrapLeft: the shift is the width alone
wrapLeftByWidth(x, W) ==
    IF x < 0 - WrapMargin * Scale THEN x + W * Scale ELSE x
wrapLeft(x, W) ==
    IF x < 0 - WrapMargin * Scale THEN x + (W * Scale + 2 * WrapMargin * Scale) ELSE x
wrapRight(x, W) ==
    IF x > W * Scale + WrapMargin * Scale THEN x - (W * Scale + 2 * WrapMargin * Scale) ELSE x
wrap(x, W) == wrapRight(wrapLeft(x, W), W)

\* mutants of isDead: the height test left out; >= for > in the age test
isDeadOldOnly(p, H) == p.life > p.maxLife
isDeadAtLimit(p, H) == (p.life >= p.maxLife) \/ (p.y - p.r > H * 1100)

\* the predicate of remove_if: old or high
isDead(p, H) == (p.life > p.maxLife) \/ (p.y - p.r > H * 1100)

\* std::remove_if + erase: the puffs kept, in order
removeDead(P, H) == SelectSeq(P, LAMBDA p : ~isDead(p, H))

\* the per-puff loop of updatePuffs
advanceAll(P, d, wind, H) == [i \in 1..Len(P) |-> advance(P[i], d, wind, H)]
wrapAll(P, W) == [i \in 1..Len(P) |-> [P[i] EXCEPT !.x = wrap(P[i].x, W)]]

\* updatePuffs(P, dt, breeze, winW, winH)
updatePuffs(P, d, wind, W, H) == removeDead(wrapAll(advanceAll(P, d, wind, H), W), H)

\* ---------------------------------------------------------------- main
\* the emitter spans for a window of width W
spanLeft(W, rate)  == Emitter(W * 180, W * 380, 110 * Scale, rate)
spanRight(W, rate) == Emitter(W * 550, W * 820, 110 * Scale, rate)

initEmitters == << spanLeft(960, 4 * Scale), spanRight(960, 3200) >>

\* mutant of onResize: the emitters are made anew
onResizeFresh(es, W) == << spanLeft(W, 4 * Scale), spanRight(W, 3200) >>

\* SDL_WINDOWEVENT_SIZE_CHANGED: keep emitters anchored near ground
onResize(es, W) == << spanLeft(W, es[1].rate), spanRight(W, es[2].rate) >>

\* SDLK_UP and SDLK_DOWN
RateStep  == 800
RateFloor == 600
onKeyDownNoFloor(es) == [i \in 1..Len(es) |-> [es[i] EXCEPT !.rate = @ - RateStep]]
onKeyUp(es)   == [i \in 1..Len(es) |-> [es[i] EXCEPT !.rate = @ + RateStep]]
onKeyDown(es) == [i \in 1..Len(es) |-> [es[i] EXCEPT !.rate = Max(RateFloor, @ - RateStep)]]

\* dt = clampf((now - lastTicks) * 0.001f, 0.0f, 0.033f); ms is the unsigned
\* difference now - lastTicks
\* mutant of frameDt: the clamp left out
frameDtRaw(ms) == ms
DtMax == 33
frameDt(ms) == clampf(ms, 0, DtMax)

\* mutant of spawnWhile: > for >=
RECURSIVE spawnWhileStrict(_, _, _, _)
spawnWhileStrict(P, E, timer, s) ==
    IF timer > Unit
    THEN LET one == spawnPuff(P, E, s)
         IN  spawnWhileStrict(one.P, E, timer - Unit, one.s)
    ELSE [P |-> P, timer |-> timer, s |-> s]

\* while (timer >= 1.f) { spawnPuff(puffs, E, ...); timer -= 1.f; }
RECURSIVE spawnWhile(_, _, _, _)
spawnWhile(P, E, timer, s) ==
    IF timer >= Unit
    THEN LET one == spawnPuff(P, E, s)
         IN  spawnWhile(one.P, E, timer - Unit, one.s)
    ELSE [P |-> P, timer |-> timer, s |-> s]

\* if (frand() < 0.02f*dt*60.f) { Emitter mid{...}; spawnPuff(puffs, mid, ...); }
midEmitter(W, H, f) == Emitter(W * 300, W * 700, H * 450 + Mul(f, 50 * Scale), 1 * Scale)
spawnMid(P, d, W, H, s) ==
    IF frandAt(s, 1) * Scale < 20 * d * 60
    THEN spawnPuff(P, midEmitter(W, H, frandAt(s, 2)), randAfter(s, 2))
    ELSE [P |-> P, s |-> randAfter(s, 1)]

\* ------------------------------------------------------------- inputs
Seeds   == {0, 56, 448}                               \* time(nullptr), line 156
Sizes   == {<<960, 600>>, <<480, 300>>, <<160, 600>>} \* window sizes
Elapsed == {0, 16, 1000}                              \* ms between two frames
DtSet   == {0, 33, 100, 1000}                         \* dt handed to one tick
Breezes == {0 - 300 * Scale, 12 * Scale, 300 * Scale}
Downs   == {0, 5}                                     \* Down keys before the first tick

\* ------------------------------------------------------------ actions
\* The state after construction, lines 173-221.
Init ==
    /\ winW = 960 /\ winH = 600
    /\ emitters = initEmitters
    /\ emitterTimerA = 0 /\ emitterTimerB = 0
    /\ puffs = <<>>
    /\ running = TRUE
    /\ breeze = 12 * Scale
    /\ randState \in Seeds
    /\ dt = 0
    /\ pc = "loop"
    /\ elapsed = 0 /\ ticks = 0
    /\ updated = <<>> /\ wrapIn = <<>>
    /\ spawned = <<0, 0>>
    /\ resizes = 0 /\ keys = 0

\* One frame from the spawn credits to updatePuffs (lines 282-295) with time
\* delta d; drawing changes no state.
frameBody(d) ==
    LET a   == spawnWhile(puffs, emitters[1], emitterTimerA + d * emitters[1].rate, randState)
        b   == spawnWhile(a.P, emitters[2], emitterTimerB + d * emitters[2].rate, a.s)
        m   == spawnMid(b.P, d, winW, winH, b.s)
        adv == advanceAll(m.P, d, breeze, winH)
    IN  /\ emitterTimerA' = a.timer
        /\ emitterTimerB' = b.timer
        /\ randState' = m.s
        /\ puffs' = updatePuffs(m.P, d, breeze, winW, winH)
        /\ dt' = d
        /\ ticks' = ticks + 1
        /\ updated' = wrapAll(adv, winW)
        /\ wrapIn' = [i \in 1..Len(adv) |-> adv[i].x]
        /\ spawned' = <<spawned[1] + Len(a.P) - Len(puffs), spawned[2] + Len(b.P) - Len(a.P)>>

\* One iteration of while (running) after its events: lines 276-302.  now and
\* lastTicks are Uint32 and only their difference is used: it is the time
\* elapsed in ms, never negative, and is drawn here from Elapsed.
Frame ==
    /\ pc = "loop" /\ ticks < MaxFrames
    /\ \E ms \in Elapsed :
          /\ elapsed' = ms
          /\ frameBody(frameDt(ms))
    /\ pc' = IF running THEN "loop" ELSE "done"
    /\ UNCHANGED <<winW, winH, emitters, running, breeze, resizes, keys>>

\* SDL_QUIT, and SDLK_ESCAPE or SDLK_q: lines 256 and 264.
EvQuit ==
    /\ pc = "loop" /\ running
    /\ running' = FALSE
    /\ UNCHANGED <<winW, winH, emitters, emitterTimerA, emitterTimerB, puffs, breeze,
                   randState, dt, pc, elapsed, ticks, updated, wrapIn, spawned,
                   resizes, keys>>

\* SDL_WINDOWEVENT_SIZE_CHANGED: lines 257-262.
EvResize(most) ==
    /\ pc = "loop" /\ keys + resizes < most
    /\ \E sz \in Sizes :
          /\ winW' = sz[1] /\ winH' = sz[2]
          /\ emitters' = onResize(emitters, sz[1])
    /\ resizes' = resizes + 1
    /\ UNCHANGED <<emitterTimerA, emitterTimerB, puffs, running, breeze, randState, dt,
                   pc, elapsed, ticks, updated, wrapIn, spawned, keys>>

\* SDLK_LEFT: line 265.
KeyLeft(most) ==
    /\ pc = "loop" /\ keys + resizes < most
    /\ breeze' = breeze - 4 * Scale
    /\ keys' = keys + 1
    /\ UNCHANGED <<winW, winH, emitters, emitterTimerA, emitterTimerB, puffs, running,
                   randState, dt, pc, elapsed, ticks, updated, wrapIn, spawned,
                   resizes>>

\* SDLK_RIGHT: line 266.
KeyRight(most) ==
    /\ pc = "loop" /\ keys + resizes < most
    /\ breeze' = breeze + 4 * Scale
    /\ keys' = keys + 1
    /\ UNCHANGED <<winW, winH, emitters, emitterTimerA, emitterTimerB, puffs, running,
                   randState, dt, pc, elapsed, ticks, updated, wrapIn, spawned,
                   resizes>>

\* SDLK_UP: lines 267-269.
KeyUp(most) ==
    /\ pc = "loop" /\ keys + resizes < most
    /\ emitters' = onKeyUp(emitters)
    /\ keys' = keys + 1
    /\ UNCHANGED <<winW, winH, emitterTimerA, emitterTimerB, puffs, running, breeze,
                   randState, dt, pc, elapsed, ticks, updated, wrapIn, spawned,
                   resizes>>

\* SDLK_DOWN: lines 270-272.
KeyDown(most) ==
    /\ pc = "loop" /\ keys + resizes < most
    /\ emitters' = onKeyDown(emitters)
    /\ keys' = keys + 1
    /\ UNCHANGED <<winW, winH, emitterTimerA, emitterTimerB, puffs, running, breeze,
                   randState, dt, pc, elapsed, ticks, updated, wrapIn, spawned,
                   resizes>>

\* The program: while (running) { events; frame }.
Next ==
    \/ Frame
    \/ EvQuit
    \/ EvResize(MaxEvents)
    \/ KeyLeft(MaxEvents)
    \/ KeyRight(MaxEvents)
    \/ KeyUp(MaxEvents)
    \/ KeyDown(MaxEvents)

Spec == Init /\ [][Next]_vars

\* One run of while (SDL_PollEvent(&ev)) over a burst of events, lines 255-274.
NextEvents ==
    \/ EvQuit
    \/ EvResize(MaxBurst)
    \/ KeyLeft(MaxBurst)
    \/ KeyRight(MaxBurst)
    \/ KeyUp(MaxBurst)
    \/ KeyDown(MaxBurst)

SpecEvents == Init /\ [][NextEvents]_vars

\* ---------------------------------------------------- the tick harness
\* emitters after n Down keys
RECURSIVE afterDowns(_, _)
afterDowns(es, n) == IF n = 0 THEN es ELSE afterDowns(onKeyDown(es), n - 1)

\* A program state before a frame, as events leave it: any window size, any
\* breeze, the rates after some Down keys; and the time delta of every tick.
InitTick ==
    /\ \E sz \in Sizes, n \in Downs :
          /\ winW = sz[1] /\ winH = sz[2]
          /\ emitters = onResize(afterDowns(initEmitters, n), sz[1])
          /\ keys = n
    /\ emitterTimerA = 0 /\ emitterTimerB = 0
    /\ puffs = <<>>
    /\ running = TRUE
    /\ breeze \in Breezes
    /\ randState \in Seeds
    /\ dt \in DtSet
    /\ pc = "loop"
    /\ elapsed = 0 /\ ticks = 0
    /\ updated = <<>> /\ wrapIn = <<>>
    /\ spawned = <<0, 0>>
    /\ resizes = 0

\* Lines 282-295 run with the time delta dt, unclamped.
Tick ==
    /\ pc = "loop" /\ ticks < MaxTicks
    /\ frameBody(dt)
    /\ UNCHANGED <<winW, winH, emitters, running, breeze, pc, elapsed, resizes, keys>>

SpecTick == InitTick /\ [][Tick]_vars

\* ------------------------------------------------------------- claims
Range(s) == {s[i] : i \in DOMAIN s}

\* C1: immediately after every updatePuffs no live puff has life > maxLife and
\* none has its bottom edge y - r above 1.1 * viewport height, and the live
\* set is exactly the updated puffs for which neither holds, in their order.
C1_CullingInvariant ==
    ticks > 0 =>
        /\ \A i \in 1..Len(puffs) :
              /\ puffs[i].life <= puffs[i].maxLife
              /\ puffs[i].y - puffs[i].r <= 1100 * winH
        /\ puffs = SelectSeq(updated,
                             LAMBDA q : q.life <= q.maxLife /\ q.y - q.r <= 1100 * winH)

\* an update that removed an old puff and a high puff and kept another
C1_Witness ==
    /\ ticks > 0
    /\ \E i \in 1..Len(updated) : updated[i].life > updated[i].maxLife
    /\ \E i \in 1..Len(updated) :
          /\ updated[i].life <= updated[i].maxLife
          /\ updated[i].y - updated[i].r > 1100 * winH
    /\ Len(puffs) > 0

\* C2: the number of puffs an emitter has spawned is the floor of its
\* accumulated credit ticks * dt * rate, whatever rand() returned; the credit
\* left after a tick is in [0, 1); rate 4.0 with dt 0.1 ten times spawns 4.
C2_SpawnCredit ==
    /\ emitterTimerA >= 0 /\ emitterTimerA < Unit
    /\ emitterTimerB >= 0 /\ emitterTimerB < Unit
    /\ spawned[1] = (ticks * dt * emitters[1].rate) \div Unit
    /\ spawned[2] = (ticks * dt * emitters[2].rate) \div Unit
    /\ (dt = 100 /\ ticks = 10 /\ emitters[1].rate = 4000) => spawned[1] = 4

\* the scenario: ten ticks of 0.1 s at rate 4.0, the fourth puff just spawned
C2_Witness ==
    /\ dt = 100 /\ ticks = 10 /\ emitters[1].rate = 4000
    /\ spawned[1] = 4 /\ emitterTimerA = 0

\* C4: whiteness is 0.2 at spawn, stays in [0, 1], never decreases in an
\* update, and stays 1 once it is 1.
C4_Whiteness ==
    [][ticks' # ticks =>
          /\ \A i \in 1..Len(updated') : updated'[i].whiten >= 200 /\ updated'[i].whiten <= Scale
          /\ \A i \in 1..Len(puffs') : puffs'[i].whiten >= 200 /\ puffs'[i].whiten <= Scale
          /\ \A i \in 1..Len(puffs) :
                /\ updated'[i].whiten >= puffs[i].whiten
                /\ puffs[i].whiten = Scale => updated'[i].whiten = Scale]_vars

\* a live puff that reached whiteness 1 and has been updated since
C4_Witness ==
    /\ dt > 0
    /\ \E i \in 1..Len(puffs) : puffs[i].whiten = Scale /\ puffs[i].life >= 7 * Scale

\* C5: an update never shrinks a puff, at any height, and every radius is > 0.
C5_MonotonicGrowth ==
    [][ticks' # ticks =>
          /\ \A i \in 1..Len(updated') : updated'[i].r > 0
          /\ \A i \in 1..Len(puffs) : updated'[i].r >= puffs[i].r]_vars

\* a puff above the viewport (heightNorm clamped to 1) that has grown
C5_Witness ==
    \E i \in 1..Len(puffs) :
        /\ puffs[i].y > winH * Scale
        /\ puffs[i].r > 22 * Scale
        /\ dt > 0

\* C6: the wrap check adds exactly width + 200 to an x below -100, subtracts
\* exactly width + 200 from an x above width + 100, and leaves any other x.
C6_HorizontalWrap ==
    \A i \in 1..Len(updated) :
        LET x0 == wrapIn[i]
            x1 == updated[i].x
        IN  /\ x0 < 0 - 100 * Scale => x1 = x0 + (winW + 200) * Scale
            /\ x0 > (winW + 100) * Scale => x1 = x0 - (winW + 200) * Scale
            /\ (x0 >= 0 - 100 * Scale /\ x0 <= (winW + 100) * Scale) => x1 = x0

\* an update that wrapped one puff from the left edge and left another alone
C6_Witness ==
    /\ \E i \in 1..Len(updated) : wrapIn[i] < 0 - 100 * Scale
    /\ \E i \in 1..Len(updated) :
          wrapIn[i] >= 0 - 100 * Scale /\ wrapIn[i] <= (winW + 100) * Scale

\* C7: with dt = 1.0 and a viewport of height 600, a puff of maxLife 20 is
\* live after each of its first 20 updates and is removed by its 21st.
C7_LifetimeScenario ==
    (dt = 1000 /\ winH = 600) =>
        \A i \in 1..Len(updated) :
            updated[i].maxLife = 20 * Scale =>
                /\ updated[i].life <= 20 * Scale => updated[i] \in Range(puffs)
                /\ updated[i].life > 20 * Scale =>
                      /\ updated[i].life = 21 * Scale
                      /\ updated[i] \notin Range(puffs)

\* the 21st update of a puff of maxLife 20, which removes it
C7_Witness ==
    /\ dt = 1000 /\ winH = 600
    /\ \E i \in 1..Len(updated) :
          /\ updated[i].maxLife = 20 * Scale
          /\ updated[i].life = 21 * Scale
          /\ updated[i] \notin Range(puffs)

\* C3: after any sequence of Up and Down keys every emitter's rate is at
\* least the floor 0.6.
C3_RateFloor ==
    \A i \in 1..Len(emitters) : emitters[i].rate >= 600

\* both rates on the floor, after a Down key that would have taken them below
C3_Witness ==
    /\ keys >= 6
    /\ emitters[1].rate = 600 /\ emitters[2].rate = 600

\* the spans of the two emitters for the current width, at height 110
C8_Spans ==
    /\ Len(emitters) = 2
    /\ emitters[1].x0 = 180 * winW /\ emitters[1].x1 = 380 * winW
    /\ emitters[2].x0 = 550 * winW /\ emitters[2].x1 = 820 * winW
    /\ \A i \in 1..2 : emitters[i].y = 110 * Scale /\ emitters[i].x0 <= emitters[i].x1
    /\ winW = 960 => emitters[1].x0 = 172800 /\ emitters[1].x1 = 364800
    /\ winW = 480 => emitters[1].x0 = 86400 /\ emitters[1].x1 = 182400

\* C8: the two emitters always span (0.18 W, 0.38 W) and (0.55 W, 0.82 W) of
\* the current width at y = 110, with x0 <= x1, and a resize changes neither
\* their rates nor their spawn credits; at widths 960 and 480 the left span
\* is (172.8, 364.8) and (86.4, 182.4).
C8_Resize ==
    [][/\ C8_Spans
       /\ C8_Spans'
       /\ resizes' # resizes =>
             /\ \A i \in 1..2 : emitters'[i].rate = emitters[i].rate
             /\ emitterTimerA' = emitterTimerA
             /\ emitterTimerB' = emitterTimerB]_vars

\* resized to width 480 with a changed rate and some credit accumulated
C8_Witness ==
    /\ resizes > 0 /\ winW = 480
    /\ emitters[1].x0 = 86400 /\ emitters[1].x1 = 182400
    /\ emitters[1].rate # 4000
    /\ emitterTimerA > 0

\* C9: the dt of a frame is in [0, 0.033] whatever time elapsed, and that one
\* value is what the frame adds (times the rate) to each spawn credit, what
\* decides the mid-level spawn, and what it adds to each puff's life.
C9_DtClamp ==
    [][ticks' # ticks =>
          LET nA  == spawned'[1] - spawned[1]
              nB  == spawned'[2] - spawned[2]
              mid == Len(updated') - Len(puffs) - nA - nB
          IN  /\ dt' >= 0 /\ dt' <= 33
              /\ emitterTimerA' + nA * Unit - emitterTimerA = dt' * emitters[1].rate
              /\ emitterTimerB' + nB * Unit - emitterTimerB = dt' * emitters[2].rate
              /\ emitterTimerA' + nA * Unit - emitterTimerA <= 33 * emitters[1].rate
              /\ emitterTimerB' + nB * Unit - emitterTimerB <= 33 * emitters[2].rate
              /\ mid = IF frandAt(randAfter(randState, 8 * (nA + nB)), 1) * Scale < 20 * dt' * 60
                       THEN 1 ELSE 0
              /\ \A i \in 1..Len(puffs) : updated'[i].life = puffs[i].life + dt'
              /\ \A i \in 1..Len(updated') : updated'[i].life <= 33 * ticks']_vars

\* a frame after a hitch of 1 s, with a puff that lived through it
C9_Witness ==
    /\ elapsed = 1000 /\ dt = 33
    /\ \E i \in 1..Len(puffs) : puffs[i].life > 33

\* C10: after every updatePuffs every live puff has x in [-100, width + 100].
C10_HorizontalConfinement ==
    [][ticks' # ticks =>
          \A i \in 1..Len(puffs') :
              /\ puffs'[i].x >= 0 - 100 * Scale
              /\ puffs'[i].x <= (winW' + 100) * Scale]_vars

====
